---- MODULE Spec2Model ----
(***************************************************************************)
(* A model of the side-by-side diff of kov/diffutils:                      *)
(*   src/src/side_diff.rs  diff, split_lines, dispatch_to_output,          *)
(*                         push_output                                     *)
(*   src/src/sdiff.rs      main, parse_params, read_file_contents          *)
(* Byte buffers are sequences of byte values (10 is '\n', 32 is ' ').      *)
(***************************************************************************)
EXTENDS Integers, Sequences, FiniteSets, TLC

\* ------------------------------------------------------------------ bytes
NL == 10
CR == 13
SP == 32
LT == 60
GT == 62
BAR == 124

\* let tab_spaces = 61;  (side_diff.rs:77)
tab_spaces == 61
\* let limiter = tab_spaces;  (side_diff.rs:78)
limiter == tab_spaces

\* ----------------------------------------------------------------- bounds
\* The largest number of lines of an input buffer.
MaxLines == 2

Min(a, b) == IF a < b THEN a ELSE b
Max(a, b) == IF a > b THEN a ELSE b
Rep(b, n) == [x \in 1..n |-> b]

\* The line contents the input buffers are built from: the empty line, "a",
\* and a line one byte longer than `limiter` (61 times 'a', then 'b').
LinePool == { <<>>, <<97>>, Rep(97, limiter) \o <<98>> }

RECURSIVE Join(_)
Join(ls) == IF Len(ls) = 1 THEN ls[1] ELSE ls[1] \o <<NL>> \o Join(Tail(ls))

\* Every buffer of 1..MaxLines lines over LinePool (the zero-length buffer is
\* the buffer of one empty line).
Buffers == { Join(ls) : ls \in UNION { [1..n -> LinePool] : n \in 1..MaxLines } }

\* ------------------------------------------------------- side_diff.rs
\* struct Line { line_ndx, content }; #[derive(PartialEq)] compares both
\* fields, which is the equality of TLA+ records.
Line(ndx, content) == [line_ndx |-> ndx, content |-> content]

\* struct Diff { left_ln, right_ln }
Diff(left_ln, right_ln) == [left_ln |-> left_ln, right_ln |-> right_ln]

\* input.split(|&c| c == b'\n')
RECURSIVE Split(_)
Split(input) ==
    IF \A p \in 1..Len(input) : input[p] # NL
    THEN << input >>
    ELSE LET p == CHOOSE p \in 1..Len(input) :
                    input[p] = NL /\ \A q \in 1..(p - 1) : input[q] # NL
         IN  << SubSeq(input, 1, p - 1) >>
                 \o Split(SubSeq(input, p + 1, Len(input)))

\* .enumerate().map(|(i, line)| Line::new(i, line)).collect()
split_lines(input) ==
    LET parts == Split(input)
    IN  [x \in 1..Len(parts) |-> Line(x - 1, parts[x])]

\* crate::utils::limited_string(orig, limit): the first `limit` bytes.
limited_string(orig, limit) == SubSeq(orig, 1, Min(Len(orig), limit))

VARIABLES
    windows,            \* cfg!(target_os = "windows") of the build
    from_file,          \* diff's left buffer
    to_file,            \* diff's right buffer
    pc,                 \* where diff is: "start", "loop", "done"
    left_lines,         \* split_lines(from_file)
    right_lines,        \* split_lines(to_file)
    script,             \* the Vec diff::slice returned
    k,                  \* the entry of script the for loop is at (1-based)
    already_dispatched, \* Vec<usize> of dispatched left line indices
    output,             \* the output Buf
    calls,              \* history: one record per dispatch_to_output call
    opts,               \* sdiff::main: the arguments still to be parsed
    fs,                 \* the files there are: path -> contents
    stdin,              \* what is left to read on standard input
    stdin_ok,           \* whether reading standard input succeeds
    main_pc,            \* where main is: "parse", "read1", "read2",
                        \*   "compare", "exit", "panic"
    params,             \* the result of parse_params
    file1,              \* main's file1
    file2,              \* main's file2
    stdout,             \* the bytes printed on standard output
    stderr,             \* the lines printed on standard error
    exit_code           \* the ExitCode main returned (-1: none)

diffvars == << windows, from_file, to_file, pc, left_lines, right_lines, script,
               k, already_dispatched, output, calls >>
mainvars == << opts, fs, stdin, stdin_ok, main_pc, params, file1, file2, stdout,
               stderr, exit_code >>
vars == << diffvars, mainvars >>

\* {EOL} of push_output
EOL == IF windows THEN << CR, NL >> ELSE << NL >>

\* push_output with the separating space after the padding forgotten.
push_output_no_sep(out, left_ln, right_ln, symbol, tab_size) ==
    LET ts == Max(tab_size - Len(left_ln), 0)
    IN  out \o left_ln \o Rep(SP, ts) \o symbol \o << SP >> \o right_ln \o EOL

\* fn push_output(output, left_ln, right_ln, symbol, tab_size), lines 40-75
push_output(out, left_ln, right_ln, symbol, tab_size) ==
    LET ts == Max(tab_size - Len(left_ln), 0)
    IN  out \o left_ln \o Rep(SP, ts + 1) \o symbol \o << SP >> \o right_ln \o EOL

\* already_dispatched.contains(&ndx)
Contains(v, x) == \E p \in 1..Len(v) : v[p] = x

\* dispatch_to_output, lines 80-112: the output after the row of d is pushed.
emit_row(out, d) ==
    LET l == d.left_ln.content
        r == d.right_ln.content
    IN  IF r # <<>> /\ l = <<>>
        THEN push_output(out, <<>>, limited_string(r, limiter), << GT >>,
                         tab_spaces)
        ELSE IF l # <<>> /\ r = <<>>
        THEN push_output(out, limited_string(l, limiter), <<>>, << LT >>,
                         tab_spaces)
        ELSE LET symbol == IF l = r THEN << SP >> ELSE << BAR >>
             IN  push_output(out, limited_string(l, limiter),
                             limited_string(r, limiter), symbol, tab_spaces)

\* dispatch_to_output without the contains check.
dispatch_unchecked(out, d, ad) ==
    [output |-> emit_row(out, d),
     already_dispatched |-> Append(ad, d.left_ln.line_ndx)]

\* dispatch_to_output without the push onto already_dispatched.
dispatch_unrecorded(out, d, ad) ==
    IF Contains(ad, d.left_ln.line_ndx)
    THEN [output |-> out, already_dispatched |-> ad]
    ELSE [output |-> emit_row(out, d), already_dispatched |-> ad]

\* fn dispatch_to_output(output, to_dispatch_val, already_dispatched),
\* lines 32-114: the output and the already_dispatched it leaves.
dispatch_to_output(out, d, ad) ==
    IF Contains(ad, d.left_ln.line_ndx)
    THEN [output |-> out, already_dispatched |-> ad]
    ELSE [output |-> emit_row(out, d),
          already_dispatched |-> Append(ad, d.left_ln.line_ndx)]

\* The length of a longest common subsequence of L[i..] and R[j..], the
\* elements compared by their own equality.
RECURSIVE LcsLen(_, _, _, _)
LcsLen(L, R, i, j) ==
    IF i > Len(L) \/ j > Len(R) THEN 0
    ELSE IF L[i] = R[j] THEN 1 + LcsLen(L, R, i + 1, j + 1)
    ELSE Max(LcsLen(L, R, i + 1, j), LcsLen(L, R, i, j + 1))

\* The order-preserving edit scripts of L[i..] against R[j..], a Both entry
\* only for two equal elements; with `longest`, only the scripts that keep a
\* longest common subsequence. The entries are << "Left", l >>,
\* << "Right", r >> and << "Both", l, r >>.
RECURSIVE Scripts(_, _, _, _, _)
Scripts(L, R, i, j, longest) ==
    IF i > Len(L) /\ j > Len(R) THEN { <<>> }
    ELSE LET best == LcsLen(L, R, i, j)
             both == IF i <= Len(L) /\ j <= Len(R) /\ L[i] = R[j]
                     THEN { << << "Both", L[i], R[j] >> >> \o s :
                                s \in Scripts(L, R, i + 1, j + 1, longest) }
                     ELSE {}
             left == IF /\ i <= Len(L)
                        /\ longest => LcsLen(L, R, i + 1, j) = best
                     THEN { << << "Left", L[i] >> >> \o s :
                                s \in Scripts(L, R, i + 1, j, longest) }
                     ELSE {}
             right == IF /\ j <= Len(R)
                         /\ longest => LcsLen(L, R, i, j + 1) = best
                      THEN { << << "Right", R[j] >> >> \o s :
                                 s \in Scripts(L, R, i, j + 1, longest) }
                      ELSE {}
         IN  both \cup left \cup right

\* diff::slice(&left_lines, &right_lines): the diff crate returns one edit
\* script built on a longest common subsequence; which one is its choice.
slice(L, R) == Scripts(L, R, 1, 1, TRUE)

\* An alignment held only to the interface the loop of diff reads: any
\* order-preserving edit script, a longest common subsequence or not.
AnyAlignment(L, R) == Scripts(L, R, 1, 1, FALSE)

\* left_lines.get(ndx) / right_lines.get(ndx): is there a line at ndx
Has(lines, ndx) == ndx + 1 <= Len(lines)

\* The record `calls` keeps of one dispatch_to_output call.
Call(d, before, after) ==
    [left_ln |-> d.left_ln, right_ln |-> d.right_ln,
     before |-> before, after |-> after]

\* ------------------------------------------------------------ sdiff.rs
\* let width = 60;  (sdiff.rs:66)
width == 60

\* The largest number of command line arguments, argv[0] included.
MaxArgs == 3

\* The paths of the command line: two files there are, "-" (standard input)
\* and a file there is not.
Paths == { "f", "g", "-", "nofile" }
ArgSeqs == UNION { [1..n -> Paths] : n \in 0..MaxArgs }

\* What a file or standard input holds: "a\n", "a\nb", and one byte (0xFF)
\* that is not UTF-8.
Contents == { << 97, NL >>, << 97, NL, 98 >>, << 255 >> }

\* Result<Params, ParseErr>, and the value of `params` before parse_params.
NoParams == [tag |-> "None", file1 |-> "", file2 |-> ""]
ErrInsufficientArgs == [tag |-> "Err", file1 |-> "", file2 |-> ""]
OkParams(f1, f2) == [tag |-> "Ok", file1 |-> f1, file2 |-> f2]

\* fn parse_params(opts), lines 104-118: the first next() drops an item
\* (none when there is none), the next two are arg1 and arg2.
parse_params(o) ==
    LET rest == IF o = <<>> THEN <<>> ELSE Tail(o)
    IN  IF Len(rest) < 1 THEN ErrInsufficientArgs
        ELSE IF Len(rest) < 2 THEN ErrInsufficientArgs
        ELSE OkParams(rest[1], rest[2])

\* String::from_utf8_lossy on a line of a buffer over Contents: an ASCII byte
\* is its character, a byte that starts no UTF-8 sequence is U+FFFD.
from_utf8_lossy(bytes) ==
    [x \in 1..Len(bytes) |-> IF bytes[x] < 128 THEN bytes[x] ELSE 65533]

\* The UTF-8 bytes writeln! writes for a string of these characters.
RECURSIVE Utf8(_)
Utf8(chars) ==
    IF chars = <<>> THEN <<>>
    ELSE (IF chars[1] < 128 THEN << chars[1] >> ELSE << 239, 191, 189 >>)
             \o Utf8(Tail(chars))

\* {:<width$}: the string, then spaces up to `width` characters.
PadLeftAligned(chars, w) == chars \o Rep(SP, Max(w - Len(chars), 0))

\* file.split(|&c| c == b'\n').collect(), and the pop of a last empty line
\* (lines 51-63)
MainLines(file) ==
    LET ls == Split(file)
    IN  IF ls[Len(ls)] = <<>> THEN SubSeq(ls, 1, Len(ls) - 1) ELSE ls

\* One turn of the loop of lines 71-96: the bytes written for line i (0-based).
MainRow(lines_left, lines_rght, i) ==
    LET hasl == i + 1 <= Len(lines_left)
        hasr == i + 1 <= Len(lines_rght)
        l == from_utf8_lossy(lines_left[i + 1])
        r == from_utf8_lossy(lines_rght[i + 1])
    IN  IF hasl /\ hasr /\ l = r
        THEN Utf8(PadLeftAligned(l, width)) \o << SP, SP, SP >> \o Utf8(r)
                 \o << NL >>
        ELSE IF hasl /\ hasr
        THEN Utf8(PadLeftAligned(l, width)) \o << SP, BAR, SP >> \o Utf8(r)
                 \o << NL >>
        ELSE IF hasl
        THEN Utf8(PadLeftAligned(l, width)) \o << SP, LT >> \o << NL >>
        ELSE IF hasr
        THEN PadLeftAligned(<<>>, width) \o << SP, GT, SP >> \o Utf8(r)
                 \o << NL >>
        ELSE <<>>

\* The output of the loop from line i on.
RECURSIVE MainRows(_, _, _)
MainRows(lines_left, lines_rght, i) ==
    IF i >= Max(Len(lines_left), Len(lines_rght)) THEN <<>>
    ELSE MainRow(lines_left, lines_rght, i)
             \o MainRows(lines_left, lines_rght, i + 1)

\* sdiff::main is not running.
MainOff ==
    /\ opts = <<>>
    /\ fs = << >>
    /\ stdin = <<>>
    /\ stdin_ok = TRUE
    /\ main_pc = "off"
    /\ params = NoParams
    /\ file1 = <<>>
    /\ file2 = <<>>
    /\ stdout = <<>>
    /\ stderr = <<>>
    /\ exit_code = -1

Init ==
    /\ windows \in BOOLEAN
    /\ from_file \in Buffers
    /\ to_file \in Buffers
    /\ pc = "start"
    /\ left_lines = <<>>
    /\ right_lines = <<>>
    /\ script = <<>>
    /\ k = 1
    /\ already_dispatched = <<>>
    /\ output = <<>>
    /\ calls = <<>>
    /\ MainOff

\* if left_lines[0].content == vec![] && right_lines[0].content == vec![]
BothEmpty(ll, rl) == ll[1].content = <<>> /\ rl[1].content = <<>>

\* diff, lines 130-142: the two sides are split and the first lines of both
\* are empty: return vec![]
DiffReturnEmpty ==
    /\ pc = "start"
    /\ left_lines' = split_lines(from_file)
    /\ right_lines' = split_lines(to_file)
    /\ BothEmpty(left_lines', right_lines')
    /\ pc' = "done"
    /\ UNCHANGED << windows, from_file, to_file, script, k, already_dispatched,
                    output, calls >>
    /\ UNCHANGED mainvars

\* diff, lines 130-173: the two sides are split and diff::slice is called
DiffSlice ==
    /\ pc = "start"
    /\ left_lines' = split_lines(from_file)
    /\ right_lines' = split_lines(to_file)
    /\ ~BothEmpty(left_lines', right_lines')
    /\ script' \in slice(left_lines', right_lines')
    /\ pc' = "loop"
    /\ UNCHANGED << windows, from_file, to_file, k, already_dispatched, output,
                    calls >>
    /\ UNCHANGED mainvars

\* One dispatch_to_output call of the loop body, and the step to the next entry.
Dispatch(d) ==
    LET res == dispatch_to_output(output, d, already_dispatched)
    IN  /\ output' = res.output
        /\ already_dispatched' = res.already_dispatched
        /\ calls' = Append(calls, Call(d, Len(output), Len(res.output)))
        /\ k' = k + 1
        /\ UNCHANGED << windows, from_file, to_file, pc, left_lines,
                        right_lines, script >>
        /\ UNCHANGED mainvars

\* The row of Result::Left(left_ln), lines 175-192
LeftRow(left_ln) ==
    IF Has(right_lines, left_ln.line_ndx)
    THEN Diff(left_ln, right_lines[left_ln.line_ndx + 1])
    ELSE Diff(left_ln, Line(left_ln.line_ndx, <<>>))

\* RightRow without the lookup of the left line at the same index.
RightRowNoLookup(right_ln) == Diff(Line(right_ln.line_ndx, <<>>), right_ln)

\* The row of Result::Right(right_ln), lines 193-204
RightRow(right_ln) ==
    IF Has(left_lines, right_ln.line_ndx)
    THEN Diff(left_lines[right_ln.line_ndx + 1], right_ln)
    ELSE Diff(Line(right_ln.line_ndx, <<>>), right_ln)

\* The row of Result::Both(line1, line2), lines 205-212
BothRow(line1, line2) == Diff(line1, line2)

ResultLeft ==
    /\ pc = "loop" /\ k <= Len(script)
    /\ script[k][1] = "Left"
    /\ Dispatch(LeftRow(script[k][2]))

ResultRight ==
    /\ pc = "loop" /\ k <= Len(script)
    /\ script[k][1] = "Right"
    /\ Dispatch(RightRow(script[k][2]))

ResultBoth ==
    /\ pc = "loop" /\ k <= Len(script)
    /\ script[k][1] = "Both"
    /\ Dispatch(BothRow(script[k][2], script[k][3]))

\* the loop is over: diff returns output
DiffReturn ==
    /\ pc = "loop" /\ k > Len(script)
    /\ pc' = "done"
    /\ UNCHANGED << windows, from_file, to_file, left_lines, right_lines,
                    script, k, already_dispatched, output, calls >>
    /\ UNCHANGED mainvars

Next ==
    \/ DiffReturnEmpty
    \/ DiffSlice
    \/ ResultLeft
    \/ ResultRight
    \/ ResultBoth
    \/ DiffReturn

Spec == Init /\ [][Next]_vars

\* diff, lines 130-173, with any order-preserving edit script in the place of
\* the one diff::slice returns
DiffAnyScript ==
    /\ pc = "start"
    /\ left_lines' = split_lines(from_file)
    /\ right_lines' = split_lines(to_file)
    /\ ~BothEmpty(left_lines', right_lines')
    /\ script' \in AnyAlignment(left_lines', right_lines')
    /\ pc' = "loop"
    /\ UNCHANGED << windows, from_file, to_file, k, already_dispatched, output,
                    calls >>
    /\ UNCHANGED mainvars

NextAnyScript ==
    \/ DiffReturnEmpty
    \/ DiffAnyScript
    \/ ResultLeft
    \/ ResultRight
    \/ ResultBoth
    \/ DiffReturn

\* diff over every order-preserving edit script.
SpecAnyScript == Init /\ [][NextAnyScript]_vars

\* side_diff::diff is not running.
DiffOff ==
    /\ windows = FALSE
    /\ from_file = <<>>
    /\ to_file = <<>>
    /\ pc = "off"
    /\ left_lines = <<>>
    /\ right_lines = <<>>
    /\ script = <<>>
    /\ k = 1
    /\ already_dispatched = <<>>
    /\ output = <<>>
    /\ calls = <<>>

InitMain ==
    /\ DiffOff
    /\ opts \in ArgSeqs
    /\ fs \in [{ "f", "g" } -> Contents]
    /\ stdin \in Contents
    /\ stdin_ok \in BOOLEAN
    /\ main_pc = "parse"
    /\ params = NoParams
    /\ file1 = <<>>
    /\ file2 = <<>>
    /\ stdout = <<>>
    /\ stderr = <<>>
    /\ exit_code = -1

\* main, lines 39-43: parse_params fails, the usage is printed, ExitCode 2
MainUsage ==
    /\ main_pc = "parse"
    /\ parse_params(opts).tag = "Err"
    /\ params' = parse_params(opts)
    /\ stderr' = Append(stderr, "Usage: <exe> <file1> <file2>")
    /\ exit_code' = 2
    /\ main_pc' = "exit"
    /\ UNCHANGED << opts, fs, stdin, stdin_ok, file1, file2, stdout >>
    /\ UNCHANGED diffvars

\* main, line 39: parse_params succeeds
MainParsed ==
    /\ main_pc = "parse"
    /\ parse_params(opts).tag = "Ok"
    /\ params' = parse_params(opts)
    /\ main_pc' = "read1"
    /\ UNCHANGED << opts, fs, stdin, stdin_ok, file1, file2, stdout, stderr,
                    exit_code >>
    /\ UNCHANGED diffvars

\* read_file_contents, lines 120-137: whether the read of filepath succeeds,
\* what it returns, and what it leaves on standard input
ReadSucceeds(filepath) ==
    IF filepath = "-" THEN stdin_ok ELSE filepath \in DOMAIN fs
ReadData(filepath) == IF filepath = "-" THEN stdin ELSE fs[filepath]
StdinAfter(filepath) == IF filepath = "-" THEN <<>> ELSE stdin

\* main, line 46
ReadFile1 ==
    /\ main_pc = "read1"
    /\ ReadSucceeds(params.file1)
    /\ file1' = ReadData(params.file1)
    /\ stdin' = StdinAfter(params.file1)
    /\ main_pc' = "read2"
    /\ UNCHANGED << opts, fs, stdin_ok, params, file2, stdout, stderr,
                    exit_code >>
    /\ UNCHANGED diffvars

\* main, line 47
ReadFile2 ==
    /\ main_pc = "read2"
    /\ ReadSucceeds(params.file2)
    /\ file2' = ReadData(params.file2)
    /\ stdin' = StdinAfter(params.file2)
    /\ main_pc' = "compare"
    /\ UNCHANGED << opts, fs, stdin_ok, params, file1, stdout, stderr,
                    exit_code >>
    /\ UNCHANGED diffvars

\* fs::read(filepath).unwrap() or get_file_from_stdin panics: main returns
\* no ExitCode
ReadPanics ==
    /\ \/ main_pc = "read1" /\ ~ReadSucceeds(params.file1)
       \/ main_pc = "read2" /\ ~ReadSucceeds(params.file2)
    /\ stderr' = Append(stderr, "panic")
    /\ main_pc' = "panic"
    /\ UNCHANGED << opts, fs, stdin, stdin_ok, params, file1, file2, stdout,
                    exit_code >>
    /\ UNCHANGED diffvars

\* main, lines 51-101: the rows are written and printed, ExitCode::SUCCESS
MainCompare ==
    /\ main_pc = "compare"
    /\ stdout' = stdout \o MainRows(MainLines(file1), MainLines(file2), 0)
                     \o << NL >>
    /\ exit_code' = 0
    /\ main_pc' = "exit"
    /\ UNCHANGED << opts, fs, stdin, stdin_ok, params, file1, file2, stderr >>
    /\ UNCHANGED diffvars

NextMain ==
    \/ MainUsage
    \/ MainParsed
    \/ ReadFile1
    \/ ReadFile2
    \/ ReadPanics
    \/ MainCompare

SpecMain == InitMain /\ [][NextMain]_vars

\* ------------------------------------------------------------- the claims
\* The rows of an output: each row ends with one '\n' (a line holds none).
NumRows(out) == Cardinality({ p \in 1..Len(out) : out[p] = NL })

\* The dispatch_to_output calls that pushed a row, in the order they ran.
Pushed == SelectSeq(calls, LAMBDA c : c.after > c.before)

\* The bytes a call pushed, and the byte at offset 62 of them.
RowOf(c) == SubSeq(output, c.before + 1, c.after)
SymbolOf(c) == output[c.before + 62 + 1]

\* The left line indices of the calls so far.
CallIndices == { calls[c].left_ln.line_ndx : c \in 1..Len(calls) }

\* The calls whose left line index an earlier call had already dispatched.
Repeats ==
    { c \in 1..Len(calls) :
        \E e \in 1..(c - 1) :
            calls[e].left_ln.line_ndx = calls[c].left_ln.line_ndx }

\* diff has run to its end past the zero-row return.
Compared == pc = "done" /\ ~BothEmpty(left_lines, right_lines)

\* The first n bytes of s.
Take(s, n) == [x \in 1..Min(Len(s), n) |-> s[x]]

\* The line at index i of a side, or the empty placeholder with that index.
LineOrFake(lines, i) == IF Has(lines, i) THEN lines[i + 1] ELSE Line(i, <<>>)

\* C1 (as the claim states it for a buffer of at least one byte; the
\* zero-length buffer is C2's case): diff(A, A) has one row per line of A, and
\* every row has the symbol ' '.
C1_IdenticalRows ==
    (pc = "done" /\ from_file = to_file /\ Len(from_file) > 0)
        => /\ NumRows(output) = Len(split_lines(from_file))
           /\ Len(Pushed) = Len(split_lines(from_file))
           /\ \A c \in 1..Len(Pushed) : SymbolOf(Pushed[c]) = SP

\* C2: diff returns the empty output if and only if both buffers are
\* zero-length; otherwise at least one row is emitted.
C2_EmptyIffBothZeroLength ==
    pc = "done"
        => /\ (output = <<>>) <=> (from_file = <<>> /\ to_file = <<>>)
           /\ (from_file # <<>> \/ to_file # <<>>) => NumRows(output) >= 1

\* C3: after any prefix of the edit script, the output has as many rows as
\* there are distinct left line indices among the rows dispatched so far,
\* already_dispatched holds each of those indices exactly once, and a row
\* whose left line index was already dispatched added no bytes.
C3_DedupInvariant ==
    /\ NumRows(output) = Cardinality(CallIndices)
    /\ Len(already_dispatched) = Cardinality(CallIndices)
    /\ { already_dispatched[p] : p \in 1..Len(already_dispatched) } = CallIndices
    /\ \A c \in Repeats : calls[c].after = calls[c].before
    /\ \A c \in 1..Len(calls) : c \notin Repeats => calls[c].after > calls[c].before

\* C3's case: diff is over and a row was dispatched for an index an earlier
\* row had.
C3_Witness == pc = "done" /\ Repeats # {}

C5_RowLayout ==
    \A c \in 1..Len(Pushed) :
        LET L == Take(Pushed[c].left_ln.content, 61)
            R == Take(Pushed[c].right_ln.content, 61)
            row == RowOf(Pushed[c])
        IN  /\ \E sym \in { SP, BAR, LT, GT } :
                  row = L \o Rep(SP, Max(61 - Len(L), 0) + 1) \o << sym >>
                          \o << SP >> \o R
                          \o (IF windows THEN << CR, NL >> ELSE << NL >>)
            /\ row[62 + 1] \in { SP, BAR, LT, GT }
            /\ \A p \in 1..62 : row[p] # NL

\* C5's case: a row was pushed for a left and a right line that are both
\* longer than 61 bytes, on the Windows target.
C5_Witness ==
    /\ pc = "done" /\ windows
    /\ \E c \in 1..Len(Pushed) :
          /\ Len(Pushed[c].left_ln.content) > 61
          /\ Len(Pushed[c].right_ln.content) > 61

\* C7: the edit script is computed by byte-content equality alone: it keeps a
\* longest common subsequence of the two sequences of line contents.
C7_AlignedByContent ==
    Compared
        => Cardinality({ e \in 1..Len(script) : script[e][1] = "Both" })
               = LcsLen([x \in 1..Len(left_lines) |-> left_lines[x].content],
                        [x \in 1..Len(right_lines) |-> right_lines[x].content],
                        1, 1)

\* C9: on left = "a\na", right = "a", diff emits exactly one row fewer than the
\* edit script has entries.
C9_OneRowFewer ==
    (pc = "done" /\ from_file = << 97, NL, 97 >> /\ to_file = << 97 >>)
        => NumRows(output) = Len(script) - 1

\* C9 as amended: diff emits as many rows as the edit script has entries less
\* the entries whose left line index an earlier entry had dispatched; on
\* left = "a\na", right = "a" there is no such entry and the rows are two, as
\* many as the entries; on left = "a", right = "" (a Left and a Right entry at
\* index 0) there is one and the row is one.
C9_RowsLessRepeats ==
    Compared
        => /\ Len(calls) = Len(script)
           /\ NumRows(output) = Len(script) - Cardinality(Repeats)
           /\ (from_file = << 97, NL, 97 >> /\ to_file = << 97 >>)
                  => (Len(script) = 2 /\ NumRows(output) = 2)
           /\ (from_file = << 97 >> /\ to_file = <<>>)
                  => (Len(script) = 2 /\ NumRows(output) = 1)

\* C9's cases: diff is over on left = "a\na", right = "a", or on an input with
\* two entries at one index.
C9_Witness ==
    /\ pc = "done"
    /\ from_file = << 97, NL, 97 >>
    /\ to_file = << 97 >>
    /\ Len(script) = 2

\* The output of rows i .. n - 1 paired by position, appended to out.
RECURSIVE Positional(_, _, _)
Positional(out, i, n) ==
    IF i >= n THEN out
    ELSE Positional(emit_row(out, Diff(LineOrFake(left_lines, i),
                                       LineOrFake(right_lines, i))),
                    i + 1, n)

\* C10: past the zero-row return, whatever edit script the alignment
\* returned, the output has max(n, m) rows, in increasing line index
\* 0 .. max(n, m) - 1, and row i pairs left line i (or the empty placeholder)
\* with right line i (or the empty placeholder).
C10_PositionalRows ==
    /\ \A c \in 1..Len(Pushed) :
          /\ Pushed[c].left_ln = LineOrFake(left_lines, c - 1)
          /\ Pushed[c].right_ln = LineOrFake(right_lines, c - 1)
    /\ Compared
          => LET n == Max(Len(left_lines), Len(right_lines))
             IN  /\ Len(Pushed) = n
                 /\ NumRows(output) = n
                 /\ output = Positional(<<>>, 0, n)

\* C10's case: diff is over on sides of different line counts, the script
\* began with a Right entry whose index a later Left entry has too, and it
\* keeps no longest common subsequence (two equal lines are not a Both entry).
C10_Witness ==
    /\ Compared
    /\ Len(left_lines) # Len(right_lines)
    /\ script[1][1] = "Right"
    /\ Repeats # {}
    /\ left_lines[1] = right_lines[1]
    /\ \A e \in 1..Len(script) : script[e][1] # "Both"

\* C6: main's exit code is 0 exactly when both inputs were read and do not
\* differ, 1 exactly when they were read and differ, 2 on trouble (too few
\* arguments or a failed read).
C6_ExitCodes ==
    main_pc \in { "exit", "panic" }
        => LET trouble == params.tag = "Err" \/ main_pc = "panic"
               same == file1 = file2
           IN  /\ (exit_code = 0) <=> (~trouble /\ same)
               /\ (exit_code = 1) <=> (~trouble /\ ~same)
               /\ (exit_code = 2) <=> trouble

\* C8: parse_params on a sequence of exactly the two items f1, f2 is
\* Ok(Params { file1: f1, file2: f2 }), and on the empty sequence
\* Err(InsufficientArgs).
C8_ParseParams ==
    main_pc # "parse"
        => /\ Len(opts) = 2 => params = OkParams(opts[1], opts[2])
           /\ Len(opts) = 0 => params = ErrInsufficientArgs

====
